---- MODULE Spec2Model ----
(***************************************************************************)
(* Model of csv2qif.py: the row window selector (slicer), the argument     *)
(* validation of ParseArgs and the row-to-record generator csv2qif.        *)
(***************************************************************************)
EXTENDS Integers, Sequences, FiniteSets, TLC

\* ---------------------------------------------------------------- bounds
MaxLines == 4   \* longest input file given to slicer
MaxStart == 3   \* largest window start
MaxStop  == 3   \* largest positive window stop
MaxDrop  == 3   \* largest k of a negative stop = -k
MaxRows  == 2   \* rows the CSV iterator delivers at most
MaxCols  == 2   \* cells of the widest row

\* ------------------------------------------------------- optional values
\* Python's None is the empty tuple, a present integer n is <<n>>.
None == <<>>
Some(n) == <<n>>
Val(o) == o[1]

VARIABLES
    \* slicer(iterator, start, stop)
    lines,      \* the underlying input: the file's lines, line i holds its position
    start,      \* parameter / local 'start'
    stop,       \* parameter 'stop'
    consumed,   \* lines the underlying iterator has handed out so far
    skipped,    \* iterations done of the running 'for _ in range(..)' loop
    tee_buf,    \* lines read through 'counter' that 'elements' has not returned yet
    yielded,    \* the sequence slicer has yielded
    spc         \* position of the generator in slicer's body

VARIABLES
    \* ParseArgs and main_alt
    slice_step,     \* step of --csv slice=START:STOP:STEP, None when not given
    qif_file_open,  \* main_alt has opened the output file
    error,          \* the exception that ended the run, "" while there is none
    \* csv2qif(qif_type, csv_iterator, field_map, csv_date_fmt, qif_date_fmt)
    qif_type,
    field_map,      \* dict in insertion order: sequence of [key, val], val as typed by the user
    csv_date_fmt,
    qif_date_fmt,
    rows_read,      \* rows pulled from csv_iterator so far
    row,            \* the row being processed (loop variable of line 372)
    row_lines,      \* what lines 387-393 yielded for this row, each with the key it came from
    row_cnt,
    out,            \* every line yielded so far, in order (what the writer prints)
    pc              \* "args", "main", "start", "loop", "done", "error"

slicer_vars == <<lines, start, stop, consumed, skipped, tee_buf, yielded, spc>>
args_vars == <<slice_step, qif_file_open>>
qif_vars == <<error, qif_type, field_map, csv_date_fmt, qif_date_fmt,
              rows_read, row, row_lines, row_cnt, out, pc>>
vars == <<lines, start, stop, consumed, skipped, tee_buf, yielded, spc,
          slice_step, qif_file_open, error, qif_type, field_map, csv_date_fmt,
          qif_date_fmt, rows_read, row, row_lines, row_cnt, out, pc>>

\* The file of n lines; a line is identified with its zero-based position.
File(n) == [i \in 1..n |-> i - 1]

\* lines[a:b] of Python for a >= 0, b >= 0 or None
PySlice(s, a, b) ==
    LET hi == IF b = None THEN Len(s) ELSE IF Val(b) < Len(s) THEN Val(b) ELSE Len(s)
    IN  IF a >= hi THEN <<>> ELSE [i \in 1..(hi - a) |-> s[a + i]]

StartOf(o) == IF o = None THEN 0 ELSE Val(o)

\* next(iterator) raises StopIteration when the file is exhausted
Exhausted == consumed >= Len(lines)

\* ------------------------------------------------- text and field tables
\* A text is a sequence of characters (one-character strings).
Range(s) == {s[i] : i \in 1..Len(s)}
IsPrefix(p, s) == Len(p) <= Len(s) /\ SubSeq(s, 1, Len(p)) = p

Digits == {"0", "1", "2", "3", "4", "5", "6", "7", "8", "9"}
DigitVal(c) == CASE c = "0" -> 0 [] c = "1" -> 1 [] c = "2" -> 2 [] c = "3" -> 3
                 [] c = "4" -> 4 [] c = "5" -> 5 [] c = "6" -> 6 [] c = "7" -> 7
                 [] c = "8" -> 8 [] c = "9" -> 9

\* str.isnumeric() of line 368, on the digit strings the model uses
IsNumeric(v) == v # <<>> /\ \A i \in 1..Len(v) : v[i] \in Digits

\* int(val) of line 369
RECURSIVE IntOf(_)
IntOf(v) == IF v = <<>> THEN 0
            ELSE 10 * IntOf(SubSeq(v, 1, Len(v) - 1)) + DigitVal(v[Len(v)])

\* Valid QIF codes
FIELD_CODE ==
    [Date |-> <<"D">>, Amount |-> <<"T">>, Debit |-> <<"T", "-">>, Credit |-> <<"T">>,
     Payee |-> <<"P">>, Memo |-> <<"M">>, Action |-> <<"N">>, Security |-> <<"Y">>,
     Price |-> <<"I">>, Quantity |-> <<"Q">>, Commission |-> <<"O">>, Cleared |-> <<"C">>]

\* Valid QIF file types
qif_types == {"Cash", "Bank", "CCard", "Invst"}

\* f'!Type:{qif_type}'; the type name is kept as one token
HeaderLine(t) == <<"!", "T", "y", "p", "e", ":", t>>

Terminator == <<"^">>

\* ------------------------------------------------------------ dict helpers
\* A dict is a sequence of [key, val] entries with distinct keys, in insertion order.
Keys(d) == {d[i].key : i \in 1..Len(d)}
Get(d, k) == LET i == CHOOSE i \in 1..Len(d) : d[i].key = k IN d[i].val

\* d[k] = v: an existing key keeps its place, a new one goes last
Put(d, k, v) ==
    IF k \in Keys(d)
      THEN [i \in 1..Len(d) |-> IF d[i].key = k THEN [key |-> k, val |-> v] ELSE d[i]]
      ELSE Append(d, [key |-> k, val |-> v])

\* d.update(e)
RECURSIVE Update(_, _)
Update(d, e) == IF e = <<>> THEN d
                ELSE Update(Put(d, Head(e).key, Head(e).val), Tail(e))

RECURSIVE SelectEntries(_, _)
SelectEntries(d, keep) ==
    IF d = <<>> THEN <<>>
    ELSE IF Head(d).key \in keep THEN <<Head(d)>> \o SelectEntries(Tail(d), keep)
    ELSE SelectEntries(Tail(d), keep)

\* lines 367-371: the entries resolved per row by column position ...
CsvFields(fm) == SelectEntries(fm, {e.key : e \in {x \in Range(fm) : IsNumeric(x.val)}})
\* ... and the entries that are the same constant for every row
ConstantFields(fm) == SelectEntries(fm, {e.key : e \in {x \in Range(fm) : ~IsNumeric(x.val)}})

\* ------------------------------------------------------------ date formats
\* A format is a sequence of directives and literal characters; %m and %d
\* each stand for one digit of the date strings the model uses.
Directives == {"%m", "%d"}

\* datetime.strptime(value, fmt) succeeds
DateMatches(v, fmt) ==
    /\ Len(v) = Len(fmt)
    /\ \A i \in 1..Len(fmt) :
          IF fmt[i] \in Directives THEN v[i] \in Digits \ {"0"} ELSE v[i] = fmt[i]
    /\ Directives \subseteq Range(fmt)

\* datetime.strptime(value, fmt): the parsed month and day
StrpTime(v, fmt) ==
    [m |-> v[CHOOSE i \in 1..Len(fmt) : fmt[i] = "%m"],
     d |-> v[CHOOSE i \in 1..Len(fmt) : fmt[i] = "%d"]]

\* datetime.strftime(date, fmt)
StrfTime(date, fmt) ==
    [i \in 1..Len(fmt) |-> IF fmt[i] = "%m" THEN date.m
                           ELSE IF fmt[i] = "%d" THEN date.d ELSE fmt[i]]

\* slicer called on its own: the converter's variables stay idle
IdleQif ==
    /\ slice_step = None
    /\ qif_file_open = FALSE
    /\ error = ""
    /\ qif_type = "CCard"
    /\ field_map = <<>>
    /\ csv_date_fmt = <<>>
    /\ qif_date_fmt = <<>>
    /\ rows_read = 0
    /\ row = <<>>
    /\ row_lines = <<>>
    /\ row_cnt = 0
    /\ out = <<>>
    /\ pc = "idle"

InitSlicer ==
    /\ IdleQif
    /\ lines \in {File(n) : n \in 0..MaxLines}
    /\ start \in {None} \cup {Some(n) : n \in 0..MaxStart}
    /\ stop \in {None} \cup {Some(n) : n \in (0 - MaxDrop)..MaxStop}
    /\ consumed = 0
    /\ skipped = 0
    /\ tee_buf = <<>>
    /\ yielded = <<>>
    /\ spc = "begin"

\* lines 400-405, 408: the tests that pick the branch
SlicerBegin ==
    /\ spc = "begin"
    /\ start' = IF start = None THEN Some(0) ELSE start
    /\ spc' = IF stop = Some(0) THEN "done"
              ELSE IF stop = None \/ Val(stop) > 0 THEN "islice"
              ELSE "skip"
    /\ UNCHANGED <<lines, stop, consumed, skipped, tee_buf, yielded>>
    /\ UNCHANGED <<args_vars, qif_vars>>

IsliceAtStop_late(cnt, stp) == stp # None /\ cnt > Val(stp)

\* itertools.islice(iterator, start, stop): the slice is over once stop lines were counted
IsliceAtStop(cnt, stp) == stp # None /\ cnt >= Val(stp)

IsliceBeforeStart_extra(cnt, st) == cnt <= Val(st)

\* islice discards the lines before position start
IsliceBeforeStart(cnt, st) == cnt < Val(st)

\* islice first advances the iterator to position start, one line per step
IsliceSkip ==
    /\ spc = "islice"
    /\ IsliceBeforeStart(consumed, start)
    /\ IF Exhausted
         THEN spc' = "done" /\ UNCHANGED consumed
         ELSE consumed' = consumed + 1 /\ UNCHANGED spc
    /\ UNCHANGED <<lines, start, stop, skipped, tee_buf, yielded>>
    /\ UNCHANGED <<args_vars, qif_vars>>

\* line 406-407: the next element of the islice is yielded, or the loop ends
IsliceYield ==
    /\ spc = "islice"
    /\ ~IsliceBeforeStart(consumed, start)
    /\ IF IsliceAtStop(consumed, stop) \/ Exhausted
         THEN spc' = "done" /\ UNCHANGED <<consumed, yielded>>
         ELSE /\ consumed' = consumed + 1
              /\ yielded' = Append(yielded, lines[consumed + 1])
              /\ UNCHANGED spc
    /\ UNCHANGED <<lines, start, stop, skipped, tee_buf>>
    /\ UNCHANGED <<args_vars, qif_vars>>

SkipDone_short(n, st) == n + 1 >= Val(st)

\* range(start) of line 410 is used up
SkipDone(n, st) == n >= Val(st)

\* lines 410-411: skip 'start' elements; StopIteration is caught at 418
SkipStart ==
    /\ spc = "skip"
    /\ IF SkipDone(skipped, start)
         THEN spc' = "tee" /\ skipped' = 0 /\ UNCHANGED consumed
         ELSE IF Exhausted
           THEN spc' = "done" /\ UNCHANGED <<consumed, skipped>>
           ELSE consumed' = consumed + 1 /\ skipped' = skipped + 1 /\ UNCHANGED spc
    /\ UNCHANGED <<lines, start, stop, tee_buf, yielded>>
    /\ UNCHANGED <<args_vars, qif_vars>>

DropCount_short(stp) == 0 - Val(stp) - 1

\* range(0 - stop) of line 414
DropCount(stp) == 0 - Val(stp)

\* lines 413-415: advance 'counter' by -stop; tee keeps what 'elements' still owes
SkipCounter ==
    /\ spc = "tee"
    /\ IF skipped >= DropCount(stop)
         THEN spc' = "loop" /\ UNCHANGED <<consumed, skipped, tee_buf>>
         ELSE IF Exhausted
           THEN spc' = "done" /\ UNCHANGED <<consumed, skipped, tee_buf>>
           ELSE /\ consumed' = consumed + 1
                /\ skipped' = skipped + 1
                /\ tee_buf' = Append(tee_buf, lines[consumed + 1])
                /\ UNCHANGED spc
    /\ UNCHANGED <<lines, start, stop, yielded>>
    /\ UNCHANGED <<args_vars, qif_vars>>

\* line 416: 'for _ in counter' pulls one more line through counter
LoopCounter ==
    /\ spc = "loop"
    /\ IF Exhausted
         THEN spc' = "done" /\ UNCHANGED <<consumed, tee_buf>>
         ELSE /\ consumed' = consumed + 1
              /\ tee_buf' = Append(tee_buf, lines[consumed + 1])
              /\ spc' = "yield"
    /\ UNCHANGED <<lines, start, stop, skipped, yielded>>
    /\ UNCHANGED <<args_vars, qif_vars>>

\* line 417: yield next(elements)
LoopYield ==
    /\ spc = "yield"
    /\ IF tee_buf = <<>>
         THEN spc' = "done" /\ UNCHANGED <<tee_buf, yielded>>
         ELSE /\ yielded' = Append(yielded, Head(tee_buf))
              /\ tee_buf' = Tail(tee_buf)
              /\ spc' = "loop"
    /\ UNCHANGED <<lines, start, stop, consumed, skipped>>
    /\ UNCHANGED <<args_vars, qif_vars>>

\* ------------------------------------------------------------- csv2qif
FmtA == <<"%m", "/", "%d">>
FmtB == <<"%d", ".", "%m">>

\* cell values: empty, an amount, a date written in FmtA
Cells == {<<>>, <<"5">>, <<"1", "/", "2">>}
Rows == UNION {[1..n -> Cells] : n \in 0..MaxCols}

\* what --fieldMap gives a field: a column position or a constant, or nothing
Absent == <<"absent">>
NameOrder == <<"Date", "Amount", "Debit", "Credit", "Cleared">>
Choices ==
    [Date    |-> {Absent, <<"0">>},
     Amount  |-> {Absent, <<"0">>, <<"R">>},
     Debit   |-> {Absent, <<"0">>, <<"1">>},
     Credit  |-> {Absent, <<"1">>, <<"R">>},
     Cleared |-> {Absent, <<"R">>}]

RECURSIVE BuildMap(_, _)
BuildMap(f, names) ==
    IF names = <<>> THEN <<>>
    ELSE IF f[Head(names)] = Absent THEN BuildMap(f, Tail(names))
    ELSE <<[key |-> Head(names), val |-> f[Head(names)]]>> \o BuildMap(f, Tail(names))

FieldMaps ==
    {BuildMap(f, NameOrder) :
        f \in {g \in [Range(NameOrder) -> UNION {Choices[n] : n \in Range(NameOrder)}] :
                  \A n \in Range(NameOrder) : g[n] \in Choices[n]}}

\* line 373: the first column position that the row does not have raises IndexError
IndexInRange(r, csv_fields) ==
    \A i \in 1..Len(csv_fields) : IntOf(csv_fields[i].val) < Len(r)

\* line 373: fields = {f: row[i] for f, i in csv_fields.items()}
Resolve(r, csv_fields) ==
    [i \in 1..Len(csv_fields) |->
        [key |-> csv_fields[i].key, val |-> r[IntOf(csv_fields[i].val) + 1]]]

\* fields.get(k, False) is truthy
Truthy(flds, k) == k \in Keys(flds) /\ Get(flds, k) # <<>>

AllAmountsMissing_noDebit(flds) ==
    ~(Truthy(flds, "Amount") \/ Truthy(flds, "Credit"))

\* lines 374-378: skip if all amounts are missing
AllAmountsMissing(flds) ==
    ~(Truthy(flds, "Amount") \/ Truthy(flds, "Credit") \/ Truthy(flds, "Debit"))

OmitLine_never(e) == FALSE

\* line 390: an empty Debit or Credit entry is not written
OmitLine(e) == e.key \in {"Debit", "Credit"} /\ e.val = <<>>

\* lines 387-392: the lines yielded for the fields of one row, with their keys
RECURSIVE FieldLines(_)
FieldLines(flds) ==
    IF flds = <<>> THEN <<>>
    ELSE IF OmitLine(Head(flds)) THEN FieldLines(Tail(flds))
    ELSE <<[key |-> Head(flds).key, line |-> FIELD_CODE[Head(flds).key] \o Head(flds).val]>>
         \o FieldLines(Tail(flds))

RecordLines_header(flds) ==
    <<[key |-> "!Type", line |-> HeaderLine(qif_type)]>>
    \o FieldLines(flds) \o <<[key |-> "^", line |-> Terminator]>>

\* lines 387-393: the field lines and then '^'
RecordLines(flds) == FieldLines(flds) \o <<[key |-> "^", line |-> Terminator]>>

TextOf(ls) == [i \in 1..Len(ls) |-> ls[i].line]

\* csv2qif is called (directly, not through ParseArgs) and not yet iterated
InitQif ==
    /\ lines = <<>> /\ start = None /\ stop = None /\ consumed = 0 /\ skipped = 0
    /\ tee_buf = <<>> /\ yielded = <<>> /\ spc = "idle"
    /\ slice_step = None
    /\ qif_file_open = FALSE
    /\ error = ""
    /\ qif_type = "CCard"
    /\ field_map \in FieldMaps
    /\ csv_date_fmt = FmtA
    /\ qif_date_fmt \in {FmtA, FmtB}
    /\ rows_read = 0
    /\ row = <<>>
    /\ row_lines = <<>>
    /\ row_cnt = 0
    /\ out = <<>>
    /\ pc = "start"

\* lines 363-371: the header is yielded, then the field map is partitioned
Header ==
    /\ pc = "start"
    /\ out' = Append(out, HeaderLine(qif_type))
    /\ pc' = "loop"
    /\ UNCHANGED <<error, qif_type, field_map, csv_date_fmt, qif_date_fmt,
                   rows_read, row, row_lines, row_cnt>>
    /\ UNCHANGED <<slicer_vars, args_vars>>

Raise_partial(e) ==
    /\ pc' = "error"
    /\ error' = e
    /\ row_lines' = <<>>
    /\ out' = Append(out, FIELD_CODE["Cleared"])
    /\ UNCHANGED row_cnt

\* lines 373-384 raise before the first yield of the row: the run stops on the
\* exception e and nothing is yielded for the row
Raise(e) ==
    /\ pc' = "error"
    /\ error' = e
    /\ row_lines' = <<>>
    /\ UNCHANGED <<out, row_cnt>>

\* lines 372-394: one iteration of 'for row in csv_iterator'
ProcessRow(r) ==
    LET csv_fields == CsvFields(field_map)
        constant_fields == ConstantFields(field_map)
        fields == Resolve(r, csv_fields)
    IN  /\ pc = "loop"
        /\ rows_read < MaxRows
        /\ rows_read' = rows_read + 1
        /\ row' = r
        /\ IF ~IndexInRange(r, csv_fields) THEN Raise("IndexError")
           ELSE IF AllAmountsMissing(fields)
             THEN row_lines' = <<>> /\ UNCHANGED <<out, row_cnt, pc, error>>
           ELSE IF csv_date_fmt # qif_date_fmt /\ "Date" \notin Keys(fields)
             THEN Raise("KeyError")
           ELSE IF csv_date_fmt # qif_date_fmt /\ ~DateMatches(Get(fields, "Date"), csv_date_fmt)
             THEN Raise("ValueError")
           ELSE LET dated == IF csv_date_fmt # qif_date_fmt
                               THEN Put(fields, "Date",
                                        StrfTime(StrpTime(Get(fields, "Date"), csv_date_fmt),
                                                 qif_date_fmt))
                               ELSE fields
                    merged == Update(dated, constant_fields)
                IN  /\ row_lines' = RecordLines(merged)
                    /\ out' = out \o TextOf(RecordLines(merged))
                    /\ row_cnt' = row_cnt + 1
                    /\ UNCHANGED <<pc, error>>
        /\ UNCHANGED <<qif_type, field_map, csv_date_fmt, qif_date_fmt>>
        /\ UNCHANGED <<slicer_vars, args_vars>>

NextRow == \E r \in Rows : ProcessRow(r)

\* line 395: csv_iterator is exhausted, the generator returns
EndOfRows ==
    /\ pc = "loop"
    /\ pc' = "done"
    /\ UNCHANGED <<error, qif_type, field_map, csv_date_fmt, qif_date_fmt,
                   rows_read, row, row_lines, row_cnt, out>>
    /\ UNCHANGED <<slicer_vars, args_vars>>

NextQif ==
    \/ Header
    \/ NextRow
    \/ EndOfRows

SpecQif == InitQif /\ [][NextQif]_vars

\* ------------------------------------------------- ParseArgs and main_alt
\* the command line: --csv slice step, --qif type, --fieldMap, the date formats
Init ==
    /\ lines = <<>> /\ start = None /\ stop = None /\ consumed = 0 /\ skipped = 0
    /\ tee_buf = <<>> /\ yielded = <<>> /\ spc = "idle"
    /\ slice_step \in {None, Some(1)}
    /\ qif_file_open = FALSE
    /\ error = ""
    /\ qif_type \in {"CCard", "Invst", "Visa"}
    /\ field_map \in FieldMaps
    /\ csv_date_fmt = FmtA
    /\ qif_date_fmt \in {FmtA, FmtB}
    /\ rows_read = 0
    /\ row = <<>>
    /\ row_lines = <<>>
    /\ row_cnt = 0
    /\ out = <<>>
    /\ pc = "args"

\* line 351, left operand of 'and'
HasAmount(fm) == "Amount" \in Keys(fm)

\* line 351, right operand: set('Credit', 'Debit') is a call of set() with two
\* arguments, which raises TypeError before issubset is reached
SetOfTwoArguments == "TypeError"

\* lines 338-352: the checks made after parse_args, in their order
ParseArgs ==
    /\ pc = "args"
    /\ IF slice_step # None
         THEN pc' = "exit" /\ error' = "parser.error"
         ELSE IF qif_type \notin qif_types
           THEN pc' = "exit" /\ error' = "parser.error"
         ELSE IF HasAmount(field_map)
           THEN pc' = "error" /\ error' = SetOfTwoArguments
         ELSE pc' = "main" /\ UNCHANGED error
    /\ UNCHANGED <<qif_type, field_map, csv_date_fmt, qif_date_fmt,
                   rows_read, row, row_lines, row_cnt, out>>
    /\ UNCHANGED <<slicer_vars, args_vars>>

\* lines 467-484: both files are opened and the generator chain is built
MainAlt ==
    /\ pc = "main"
    /\ qif_file_open' = TRUE
    /\ pc' = "start"
    /\ UNCHANGED <<error, qif_type, field_map, csv_date_fmt, qif_date_fmt,
                   rows_read, row, row_lines, row_cnt, out>>
    /\ UNCHANGED <<slicer_vars, slice_step>>

Next ==
    \/ ParseArgs
    \/ MainAlt
    \/ Header
    \/ NextRow
    \/ EndOfRows

Spec == Init /\ [][Next]_vars

NextSlicer ==
    \/ SlicerBegin
    \/ IsliceSkip
    \/ IsliceYield
    \/ SkipStart
    \/ SkipCounter
    \/ LoopCounter
    \/ LoopYield

SpecSlicer == InitSlicer /\ [][NextSlicer]_vars

\* ------------------------------------------------------------ slicer claims
Max(a, b) == IF a >= b THEN a ELSE b

\* s without its last k elements
DropLast(s, k) == IF Len(s) <= k THEN <<>> ELSE SubSeq(s, 1, Len(s) - k)

NonNegStop == stop = None \/ Val(stop) >= 0
NegStop == stop # None /\ Val(stop) < 0

C7_BoundedLookahead ==
    [][(NegStop /\ Len(yielded') = Len(yielded) + 1) =>
          LET p == yielded'[Len(yielded')]
              k == 0 - Val(stop)
          IN  /\ p >= StartOf(start)
              /\ consumed >= p + k + 1
              /\ (consumed' - StartOf(start)) - Len(yielded') <= k]_vars

C7_Witness ==
    /\ NegStop /\ Val(stop) <= 0 - 2 /\ Len(yielded) >= 1 /\ spc = "loop"
    /\ Len(tee_buf) = 0 - Val(stop) /\ consumed < Len(lines)

\* C8 as stated: with stop >= 0 slicer never reads more than stop lines.
C8_ReadsAtMostStop ==
    (stop # None /\ Val(stop) >= 0) => consumed <= Val(stop)

\* C8: with stop >= 0 slicer never reads more than max(start, stop) lines: none
\* when stop == 0, at most stop when start <= stop; for start > stop > 0 islice
\* still advances the input to position start.
C8_ReadsAtMostMaxStartStop ==
    (stop # None /\ Val(stop) >= 0) =>
        /\ consumed <= Max(StartOf(start), Val(stop))
        /\ (Val(stop) = 0 => consumed = 0)
        /\ (StartOf(start) <= Val(stop) => consumed <= Val(stop))

C8_Witness ==
    /\ spc = "done" /\ stop # None /\ Val(stop) > 0
    /\ StartOf(start) < Val(stop) /\ consumed = Val(stop) /\ Len(lines) > Val(stop)
\* ----------------------------------------------------------- csv2qif claims
Count(s, x) == Cardinality({i \in 1..Len(s) : s[i] = x})
TPrefixed(ls) == {i \in 1..Len(ls) : IsPrefix(<<"T">>, ls[i].line)}
LinesOf(ls, k) == {i \in 1..Len(ls) : ls[i].key = k}

\* the FieldMap invariant: Amount never together with both Debit and Credit
AcceptedMap(fm) == ~("Amount" \in Keys(fm) /\ {"Debit", "Credit"} \subseteq Keys(fm))

\* the cell of row r that fm assigns to field k by column position
IsColumn(fm, k) == k \in Keys(fm) /\ IsNumeric(Get(fm, k))
CellOf(fm, r, k) == r[IntOf(Get(fm, k)) + 1]

\* the value the field map gives field k on row r: the cell or the constant
ValueOf(fm, r, k) == IF IsNumeric(Get(fm, k)) THEN CellOf(fm, r, k) ELSE Get(fm, k)

AmountFields == {"Amount", "Credit", "Debit"}
AllEmptyOrUnmapped(fm, r) ==
    \A k \in AmountFields : k \notin Keys(fm) \/ ValueOf(fm, r, k) = <<>>
AllCellsEmptyOrNoColumn(fm, r) ==
    \A k \in AmountFields : ~IsColumn(fm, k) \/ CellOf(fm, r, k) = <<>>

\* a row was taken from the iterator and processed without an exception
RowDone == rows_read' = rows_read + 1 /\ pc' # "error"
NoNewLine == out' = out /\ row_cnt' = row_cnt
OneNewRecord ==
    /\ Len(out') > Len(out) /\ SubSeq(out', 1, Len(out)) = out
    /\ out'[Len(out')] = Terminator
    /\ Count(out', Terminator) = Count(out, Terminator) + 1
    /\ row_cnt' = row_cnt + 1

DebitOnlyRow ==
    /\ pc \in {"loop", "done"} /\ rows_read > 0
    /\ IsColumn(field_map, "Debit") /\ IsColumn(field_map, "Credit")
    /\ AcceptedMap(field_map)
    /\ CellOf(field_map, row, "Debit") # <<>>
    /\ CellOf(field_map, row, "Credit") = <<>>

C5_DebitOnlyOneAmountLine ==
    DebitOnlyRow =>
        /\ row_lines # <<>>
        /\ Cardinality(TPrefixed(row_lines)) = 1
        /\ \A i \in TPrefixed(row_lines) :
              /\ row_lines[i].key = "Debit"
              /\ row_lines[i].line = <<"T", "-">> \o CellOf(field_map, row, "Debit")
        /\ LinesOf(row_lines, "Credit") = {}

C5_Witness == DebitOnlyRow /\ Len(row_lines) >= 2 /\ row_cnt >= 1

\* C6: the header '!Type:<qif_type>' is the first line yielded, nothing is
\* yielded before it, and no later line is a '!Type:' line.
IsHeader(l) == IsPrefix(<<"!", "T", "y", "p", "e", ":">>, l)

C6_HeaderOnceAndFirst ==
    /\ pc = "start" => out = <<>>
    /\ pc \in {"loop", "done", "error"} => out # <<>>
    /\ out # <<>> => out[1] = HeaderLine(qif_type)
    /\ \A i \in 2..Len(out) : ~IsHeader(out[i])

C6_Witness == pc = "done" /\ row_cnt = 2 /\ Len(out) >= 5

\* out is the header followed by complete records only
HeaderThenCompleteRecords ==
    /\ out # <<>> /\ out[1] = HeaderLine(qif_type)
    /\ Len(out) = 1 \/ out[Len(out)] = Terminator
    /\ Count(out, Terminator) = row_cnt

\* C9: a row that fails (column position out of range, checked even for a row
\* without amounts; Date not matching the input format when the formats
\* differ) raises without a line of its own being yielded, no further row is
\* processed, and what was yielded is the header and complete records only.
C9_FailureLeavesCompleteRecords ==
    /\ [][/\ pc' = "error" => out' = out /\ row_cnt' = row_cnt
          /\ pc = "error" => pc' = "error" /\ rows_read' = rows_read]_vars
    /\ [](/\ pc = "error" => row_lines = <<>> /\ HeaderThenCompleteRecords
          /\ (rows_read > 0 /\ ~IndexInRange(row, CsvFields(field_map)))
               => pc = "error" /\ error = "IndexError"
          /\ (rows_read > 0 /\ IndexInRange(row, CsvFields(field_map))
               /\ ~AllAmountsMissing(Resolve(row, CsvFields(field_map)))
               /\ csv_date_fmt # qif_date_fmt /\ IsColumn(field_map, "Date")
               /\ ~DateMatches(CellOf(field_map, row, "Date"), csv_date_fmt))
               => pc = "error" /\ error = "ValueError")

C9_Witness ==
    /\ pc = "error" /\ error = "ValueError" /\ row_cnt = 1 /\ rows_read = 2
    /\ Len(out) >= 3

\* C10: for a field map that validation accepts, no record has both a Debit
\* line and a Credit line.
C10_DebitCreditExclusive ==
    (AcceptedMap(field_map) /\ rows_read > 0) =>
        ~(LinesOf(row_lines, "Debit") # {} /\ LinesOf(row_lines, "Credit") # {})

\* --------------------------------------------------------- ParseArgs claims
\* C3: once ParseArgs is over (no step, a valid account type), a field map with
\* Amount and both Debit and Credit has ended the run through parser.error
\* with no row read and no output file opened, and a field map with Amount
\* but not both Debit and Credit has passed validation.
C3_AmountConflictRejected ==
    (pc # "args" /\ slice_step = None /\ qif_type \in qif_types
       /\ "Amount" \in Keys(field_map)) =>
        IF {"Debit", "Credit"} \subseteq Keys(field_map)
          THEN pc = "exit" /\ error = "parser.error"
               /\ ~qif_file_open /\ rows_read = 0 /\ out = <<>>
          ELSE pc # "exit" /\ error # "TypeError"
====
